---- MODULE Spec2Model ----
(***************************************************************************)
(* A model of the glob matcher vendored in rtgrep                          *)
(* (src/vendor/github.com/nilium/glob/glob.go): the pattern compiler       *)
(* compileGlobPattern, the four scanners, the backtracking loop of         *)
(* GlobPattern.Matches and the top-level Matches over the three Pattern    *)
(* values: a compiled GlobPattern, a PatternStr and a Literal; and of       *)
(* search in src/main.go, which walks a tree, filters the file names with  *)
(* the matcher and reads the files in goroutines of an errgroup.           *)
(*                                                                         *)
(* A Go string is a sequence of bytes; a byte is a one-element TLA+ string *)
(* ("C3" and "A9" are the two bytes of the code point U+00E9).  Go's       *)
(* s[lo:hi] is Slice(s, lo, hi) and panics unless InRange(s, lo, hi).      *)
(***************************************************************************)
EXTENDS Integers, Sequences, FiniteSets, TLC

\* Longest pattern text and longest candidate string of a behaviour.
MaxPat == 3
MaxStr == 3
\* The same for the behaviours checked for termination and for those with
\* two caller goroutines, and the number of calls the first goroutine makes
\* one after the other.
MaxPatSmall == 2
MaxStrSmall == 2
MaxCalls == 2
\* Longest candidate of the behaviours checked for backtracking.
MaxLong == 5
\* Longest pattern and candidate of the behaviours with star-only patterns.
MaxStar == 4
\* Most files under the root of a search, and the capacity of its two
\* channels (100 in the program), kept below the number of files.
MaxFiles == 3
Cap == 1

\* Bytes of pattern texts: two plain letters and the three special bytes.
PatBytes == {"a", "b", "*", "?", "\\"}
\* Bytes of candidates: plain letters and a wildcard byte, or a letter and
\* the two bytes of a two-byte code point.
AsciiBytes == {"a", "b", "*"}
Utf8Bytes == {"a", "C3", "A9"}

Strs(S, n) == UNION {[1..k -> S] : k \in 0..n}

---------------------------------------------------------------------------
\* Go string primitives.

InRange(s, lo, hi) == 0 <= lo /\ lo <= hi /\ hi <= Len(s)

Slice(s, lo, hi) == SubSeq(s, lo + 1, hi)

SliceFrom(s, lo) == SubSeq(s, lo + 1, Len(s))

OccursAt(s, sub, i) ==
    i + Len(sub) <= Len(s) /\ SubSeq(s, i + 1, i + Len(sub)) = sub

\* strings.Index: the byte offset of the first occurrence of sub in s, or -1.
Index(s, sub) ==
    IF \E i \in 0..Len(s) : OccursAt(s, sub, i)
    THEN CHOOSE i \in 0..Len(s) :
            OccursAt(s, sub, i) /\ \A j \in 0..(i - 1) : ~OccursAt(s, sub, j)
    ELSE -1

\* The size ReadRune reports for the first code point of a non-empty string:
\* 2 for a lead byte followed by its continuation byte, 1 otherwise (a lone
\* lead or continuation byte decodes as RuneError with size 1).
RuneSize(s) == IF Len(s) >= 2 /\ s[1] = "C3" /\ s[2] = "A9" THEN 2 ELSE 1

---------------------------------------------------------------------------
\* Scanners: (matched, remaining input, bytes consumed); fault marks an
\* out-of-range slice, which panics.

ScanOk(rest, n) == [m |-> TRUE, rest |-> rest, n |-> n, fault |-> FALSE]

ScanFail(str) == [m |-> FALSE, rest |-> str, n |-> 0, fault |-> FALSE]

ScanFault(str) == [m |-> FALSE, rest |-> str, n |-> 0, fault |-> TRUE]

\* consumeSubstring without the comparison of the prefix with substr.
consumeSubstringNoCompare(str, substr) ==
    IF Len(str) < Len(substr) THEN ScanFail(str)
    ELSE IF Len(substr) = 0 THEN ScanOk(str, 0)
    ELSE ScanOk(SliceFrom(str, Len(substr)), Len(substr))

consumeSubstring(str, substr) ==
    IF Len(str) < Len(substr) THEN ScanFail(str)
    ELSE IF Len(substr) = 0 THEN ScanOk(str, 0)
    ELSE IF ~InRange(str, 0, Len(substr)) THEN ScanFault(str)
    ELSE IF Slice(str, 0, Len(substr)) # substr THEN ScanFail(str)
    ELSE ScanOk(SliceFrom(str, Len(substr)), Len(substr))

\* consumeOnePreceding without the r.Len() < len(substr) case, leaving the
\* length test that counts one byte for the code point.
consumeOnePrecedingNoLenCase(str, substr) ==
    IF Len(str) < 1 THEN ScanFail(str)
    ELSE LET size == RuneSize(str)
         IN  IF Len(str) < Len(substr) + 1 THEN ScanFail(str)
             ELSE IF Len(substr) = 0
                  THEN IF InRange(str, size, Len(str))
                       THEN ScanOk(SliceFrom(str, size), size)
                       ELSE ScanFault(str)
             ELSE IF ~InRange(str, size, size + Len(substr)) THEN ScanFault(str)
             ELSE IF Slice(str, size, size + Len(substr)) # substr
                  THEN ScanOk(SliceFrom(str, size + Len(substr)), size + Len(substr))
             ELSE ScanFail(str)

consumeOnePreceding(str, substr) ==
    IF Len(str) < 1 THEN ScanFail(str)
    ELSE LET size == RuneSize(str)
             rLen == Len(str) - size
         IN  IF rLen < Len(substr) THEN ScanFail(str)
             ELSE IF Len(str) < Len(substr) + 1 THEN ScanFail(str)
             ELSE IF Len(substr) = 0
                  THEN IF InRange(str, size, Len(str))
                       THEN ScanOk(SliceFrom(str, size), size)
                       ELSE ScanFault(str)
             ELSE IF ~InRange(str, size, size + Len(substr)) THEN ScanFault(str)
             ELSE IF Slice(str, size, size + Len(substr)) # substr
                  THEN ScanOk(SliceFrom(str, size + Len(substr)), size + Len(substr))
             ELSE ScanFail(str)

consumeEnd(str, substr) ==
    [m |-> Len(str) = 0 /\ Len(substr) = 0, rest |-> str, n |-> 0, fault |-> FALSE]

\* consumeAllPreceding whose first early return fails on an empty input
\* whatever the tail: a `*` that must consume at least one byte.
consumeAllEnterNoZero(str, substr) ==
    IF Len(str) = 0
    THEN [looping |-> FALSE, offset |-> 0, subIndex |-> -1, r |-> ScanFail(str)]
    ELSE IF Len(substr) = 0
    THEN [looping |-> FALSE, offset |-> 0, subIndex |-> -1,
          r |-> ScanOk(SliceFrom(str, Len(str)), Len(str))]
    ELSE [looping |-> TRUE, offset |-> 0, subIndex |-> Index(str, substr),
          r |-> ScanFail(str)]

\* consumeAllPreceding before its loop: the two early returns, or the first
\* strings.Index.  looping = TRUE means the for loop is entered with
\* offset = 0 and the given subIndex.
consumeAllEnter(str, substr) ==
    IF Len(str) = 0
    THEN [looping |-> FALSE, offset |-> 0, subIndex |-> -1,
          r |-> [m |-> Len(substr) = 0, rest |-> str, n |-> 0, fault |-> FALSE]]
    ELSE IF Len(substr) = 0
    THEN [looping |-> FALSE, offset |-> 0, subIndex |-> -1,
          r |-> ScanOk(SliceFrom(str, Len(str)), Len(str))]
    ELSE [looping |-> TRUE, offset |-> 0, subIndex |-> Index(str, substr),
          r |-> ScanFail(str)]

\* The loop of consumeAllPreceding that reports, on success, the length of
\* the tail as the bytes consumed, leaving out the span of the wildcard.
consumeAllIterCountsTail(str, substr, offset, subIndex) ==
    IF subIndex # -1
    THEN LET off == offset + subIndex
         IN  IF subIndex > 0
             THEN [looping |-> FALSE, offset |-> off, subIndex |-> subIndex,
                   r |-> IF InRange(str, off + Len(substr), Len(str))
                         THEN ScanOk(SliceFrom(str, off + Len(substr)), Len(substr))
                         ELSE ScanFault(str)]
             ELSE IF InRange(str, off + subIndex + 1, Len(str))
                  THEN [looping |-> TRUE, offset |-> off,
                        subIndex |-> Index(SliceFrom(str, off + subIndex + 1), substr),
                        r |-> ScanFail(str)]
                  ELSE [looping |-> FALSE, offset |-> off, subIndex |-> subIndex,
                        r |-> ScanFault(str)]
    ELSE [looping |-> FALSE, offset |-> offset, subIndex |-> subIndex,
          r |-> ScanFail(str)]

\* One evaluation of the loop condition of consumeAllPreceding and, when it
\* holds, one run of the loop body.
consumeAllIter(str, substr, offset, subIndex) ==
    IF subIndex # -1
    THEN LET off == offset + subIndex
         IN  IF subIndex > 0
             THEN [looping |-> FALSE, offset |-> off, subIndex |-> subIndex,
                   r |-> IF InRange(str, off + Len(substr), Len(str))
                         THEN ScanOk(SliceFrom(str, off + Len(substr)), off + Len(substr))
                         ELSE ScanFault(str)]
             ELSE IF InRange(str, off + subIndex + 1, Len(str))
                  THEN [looping |-> TRUE, offset |-> off,
                        subIndex |-> Index(SliceFrom(str, off + subIndex + 1), substr),
                        r |-> ScanFail(str)]
                  ELSE [looping |-> FALSE, offset |-> off, subIndex |-> subIndex,
                        r |-> ScanFault(str)]
    ELSE [looping |-> FALSE, offset |-> offset, subIndex |-> subIndex,
          r |-> ScanFail(str)]

\* test.scanner(substr, test.substr) for the three scanners without a loop.
Scan(scanner, str, substr) ==
    CASE scanner = "consumeSubstring" -> consumeSubstring(str, substr)
      [] scanner = "consumeOnePreceding" -> consumeOnePreceding(str, substr)
      [] scanner = "consumeEnd" -> consumeEnd(str, substr)

---------------------------------------------------------------------------
\* The pattern compiler.

\* A *globScanner: the scanner function (by name), the kind, the literal
\* tail and the byte offset in the pattern where the tail starts.
globScanner(scanner, kind, substr, start) ==
    [scanner |-> scanner, kind |-> kind, substr |-> substr, start |-> start]

\* The switch of compileGlobPattern on one code point: the scanner, the kind
\* and the start it sets, or skip for the default case (continue).  Pattern
\* texts here hold one-byte code points only, so the range index is the byte
\* offset and utf8.RuneLen(code) is 1.
classify(code, index) ==
    IF code = "\\"
    THEN [skip |-> FALSE, fn |-> "consumeSubstring", kind |-> "globString", start |-> -1]
    ELSE IF code = "*"
    THEN [skip |-> FALSE, fn |-> "consumeAllPreceding", kind |-> "globMany", start |-> -1]
    ELSE IF code = "?"
    THEN [skip |-> FALSE, fn |-> "consumeOnePreceding", kind |-> "globOne", start |-> -1]
    ELSE IF index = 0
    THEN [skip |-> FALSE, fn |-> "consumeSubstring", kind |-> "globString", start |-> index]
    ELSE [skip |-> TRUE, fn |-> "nil", kind |-> "globMany", start |-> -1]

\* The adjacency test that forgets the `?` after a `*`.
invalidSequenceManyOnly(kind, last, index) ==
    kind = "globMany" /\ last.kind = "globMany" /\ last.start = index

\* The test that rejects a wildcard directly after a `*`.
invalidSequence(kind, last, index) ==
    (kind = "globOne" \/ kind = "globMany") /\ last.kind = "globMany" /\ last.start = index

compileOk(steps) == [steps |-> steps, isNil |-> FALSE, err |-> "nil", fault |-> FALSE]

compileErr(e) == [steps |-> <<>>, isNil |-> TRUE, err |-> e, fault |-> FALSE]

compileFault == [steps |-> <<>>, isNil |-> TRUE, err |-> "nil", fault |-> TRUE]

\* The statements after the range loop that append the End step only after
\* a step of the pattern, so that the empty pattern compiles to no step.
compileFinishEndAfterStep(pattern, wildcards) ==
    LET n == Len(wildcards)
    IN  IF n = 0 THEN compileOk(wildcards)
        ELSE IF ~InRange(pattern, wildcards[n].start, Len(pattern)) THEN compileFault
        ELSE compileOk(Append([wildcards EXCEPT
                                  ![n].substr = SliceFrom(pattern, wildcards[n].start)],
                              globScanner("consumeEnd", "globEnd", <<>>, Len(pattern))))

\* The statements after the range loop: the last step's tail, the End step.
compileFinish(pattern, wildcards) ==
    LET n == Len(wildcards)
    IN  IF n > 0 /\ ~InRange(pattern, wildcards[n].start, Len(pattern))
        THEN compileFault
        ELSE LET closed == IF n > 0
                           THEN [wildcards EXCEPT
                                    ![n].substr = SliceFrom(pattern, wildcards[n].start)]
                           ELSE wildcards
             IN  compileOk(Append(closed,
                        globScanner("consumeEnd", "globEnd", <<>>, Len(pattern))))

RECURSIVE compileFrom(_, _, _)
\* The range loop of compileGlobPattern from byte offset index on.
compileFrom(pattern, index, wildcards) ==
    IF index >= Len(pattern) THEN compileFinish(pattern, wildcards)
    ELSE
    LET code == pattern[index + 1]
        c == classify(code, index)
        n == Len(wildcards)
        last == wildcards[n]
        start == IF c.start = -1 THEN index + 1 ELSE c.start
        new == globScanner(c.fn, c.kind, <<>>, start)
    IN  IF c.skip THEN compileFrom(pattern, index + 1, wildcards)
        ELSE IF n = 0 THEN compileFrom(pattern, index + 1, Append(wildcards, new))
        ELSE IF invalidSequence(c.kind, last, index)
        THEN compileErr("ErrInvalidGlobSequence")
        ELSE IF code = "\\" /\ Len(last.substr) = 0
        THEN compileFrom(pattern, index + 1,
                         [wildcards EXCEPT ![n].start = last.start + 1])
        ELSE IF ~InRange(pattern, last.start, index) THEN compileFault
        ELSE compileFrom(pattern, index + 1,
                Append([wildcards EXCEPT ![n].substr = Slice(pattern, last.start, index)],
                       new))

compileGlobPattern(pattern) == compileFrom(pattern, 0, <<>>)

\* A nil *GlobPattern.
NilPattern == [isNil |-> TRUE, pattern |-> <<>>, steps |-> <<>>]

\* NewPattern that keeps the pattern text with its backslashes removed.
NewPatternUnescaped(pattern) ==
    LET c == compileGlobPattern(pattern)
    IN  IF c.fault THEN [p |-> NilPattern, err |-> "nil", fault |-> TRUE]
        ELSE IF c.err # "nil" THEN [p |-> NilPattern, err |-> c.err, fault |-> FALSE]
        ELSE [p |-> [isNil |-> FALSE,
                     pattern |-> SelectSeq(pattern, LAMBDA b : b # "\\"),
                     steps |-> c.steps],
              err |-> "nil", fault |-> FALSE]

\* NewPattern: (pattern, error); fault when the compiler panicked.
NewPattern(pattern) ==
    LET c == compileGlobPattern(pattern)
    IN  IF c.fault THEN [p |-> NilPattern, err |-> "nil", fault |-> TRUE]
        ELSE IF c.err # "nil" THEN [p |-> NilPattern, err |-> c.err, fault |-> FALSE]
        ELSE IF c.isNil THEN [p |-> NilPattern, err |-> "ErrPatternInvalid", fault |-> FALSE]
        ELSE IF Len(c.steps) = 0
        THEN [p |-> NilPattern, err |-> "ErrPatternEmpty", fault |-> FALSE]
        ELSE [p |-> [isNil |-> FALSE, pattern |-> pattern, steps |-> c.steps],
              err |-> "nil", fault |-> FALSE]

\* GlobPattern.String.
String(p) == p.pattern

---------------------------------------------------------------------------
\* One call of the top-level Matches(pattern, str), and inside it one call
\* of GlobPattern.Matches: the locals of both, and the position pc.
\*   idle     not called yet
\*   loop     at the loop condition of GlobPattern.Matches
\*   allLoop  inside test.scanner = consumeAllPreceding, at its loop condition
\*   done     Matches has returned (matched, err)
\*   panic    a slice was out of range
\* entry and rewinds are history: the remaining input the first ManyWildcard
\* step was last entered with, and the number of rewinds of the call.
IdleCall(s) ==
    [pc |-> "idle", str |-> s, own |-> NilPattern, entered |-> FALSE,
     stepIndex |-> 0, substr |-> <<>>, matches |-> FALSE, bytesConsumed |-> 0,
     firstMany |-> -1, firstManySubstr |-> <<>>, wasReset |-> FALSE,
     offset |-> 0, subIndex |-> -1,
     result |-> FALSE, matched |-> FALSE, err |-> "nil",
     entry |-> <<>>, rewinds |-> 0]

\* The declarations that open GlobPattern.Matches.
enterMatches(c) ==
    [c EXCEPT !.pc = "loop", !.entered = TRUE, !.stepIndex = 0, !.substr = c.str,
              !.matches = FALSE, !.bytesConsumed = 0, !.firstMany = -1,
              !.firstManySubstr = c.str, !.wasReset = FALSE,
              !.entry = <<>>, !.rewinds = 0]

\* The top-level Matches returns (compiled.Matches(str), nil).
topReturn(c, v) == [c EXCEPT !.pc = "done", !.matched = v, !.err = "nil"]

\* The top-level Matches returns (false, err) when compiled() failed.
topFail(c, e) == [c EXCEPT !.pc = "done", !.matched = FALSE, !.err = e]

\* GlobPattern.Matches returns v to the top-level Matches.
returnMatches(c, v) == topReturn([c EXCEPT !.result = v], v)

panicked(c) == [c EXCEPT !.pc = "panic"]

\* The final return of GlobPattern.Matches, after the loop.
finalResult(c, numSteps) == Len(c.substr) = 0 /\ c.stepIndex = numSteps

\* Recording that follows the latest ManyWildcard step instead of the first.
trackLatestMany(c, test) ==
    IF test.kind = "globMany"
    THEN [c EXCEPT !.firstMany = c.stepIndex, !.firstManySubstr = c.substr]
    ELSE c

\* Recording the first ManyWildcard step and its checkpoint.
trackFirstMany(c, test) ==
    IF (c.firstMany = -1 \/ c.firstMany = c.stepIndex) /\ test.kind = "globMany"
    THEN [c EXCEPT !.firstMany = c.stepIndex, !.firstManySubstr = c.substr]
    ELSE c

\* The reject condition without the wasReset flag.
rejectOnFailNoReset(c) ==
    c.firstMany = -1 \/ c.stepIndex = 0 \/ Len(c.firstManySubstr) = 0

\* The scanner of the first ManyWildcard step is about to be called: note
\* the remaining input it is entered with.
noteEntry(c) == IF c.firstMany = c.stepIndex THEN [c EXCEPT !.entry = c.substr] ELSE c

\* The condition under which a failed step rejects instead of rewinding.
rejectOnFail(c) ==
    c.firstMany = -1 \/ c.stepIndex = 0 \/ c.wasReset \/ Len(c.firstManySubstr) = 0

\* The lower bound of the slice that advances the checkpoint.
checkpointLo(c, test) == c.bytesConsumed - Len(test.substr)

\* The rest of one loop iteration once the scanner has returned r.
afterScan(c0, test, r) ==
    IF r.fault THEN panicked(c0)
    ELSE
    LET c1 == [c0 EXCEPT !.matches = r.m, !.substr = r.rest, !.bytesConsumed = r.n]
        adv == c1.matches /\ c1.firstMany = c1.stepIndex
        lo == checkpointLo(c1, test)
        c2 == IF adv
              THEN [c1 EXCEPT !.firstManySubstr = SliceFrom(c1.firstManySubstr, lo)]
              ELSE c1
    IN  IF adv /\ ~InRange(c1.firstManySubstr, lo, Len(c1.firstManySubstr))
        THEN panicked(c1)
        ELSE IF ~c2.matches
        THEN IF rejectOnFail(c2) THEN returnMatches(c2, FALSE)
             ELSE IF ~InRange(c2.firstManySubstr, 1, Len(c2.firstManySubstr))
             THEN panicked(c2)
             ELSE [c2 EXCEPT !.pc = "loop", !.stepIndex = c2.firstMany,
                             !.substr = SliceFrom(c2.firstManySubstr, 1),
                             !.wasReset = TRUE, !.rewinds = c2.rewinds + 1]
        ELSE [c2 EXCEPT !.pc = "loop", !.stepIndex = c2.stepIndex + 1,
                        !.wasReset = FALSE]

\* One evaluation of the loop condition of GlobPattern.Matches and, when it
\* holds, the loop body up to the scanner call; the whole body when the
\* scanner returns without looping.
loopIter(c, steps) ==
    IF c.stepIndex < Len(steps)
    THEN LET test == steps[c.stepIndex + 1]
             c1 == noteEntry(trackFirstMany(c, test))
         IN  IF test.scanner = "consumeAllPreceding"
             THEN LET e == consumeAllEnter(c1.substr, test.substr)
                  IN  IF e.looping
                      THEN [c1 EXCEPT !.pc = "allLoop", !.offset = e.offset,
                                      !.subIndex = e.subIndex]
                      ELSE afterScan(c1, test, e.r)
             ELSE afterScan(c1, test, Scan(test.scanner, c1.substr, test.substr))
    ELSE returnMatches(c, finalResult(c, Len(steps)))

\* One turn of the loop of consumeAllPreceding; when it returns, the rest of
\* the iteration of GlobPattern.Matches that called it.
allIter(c, steps) ==
    LET test == steps[c.stepIndex + 1]
        e == consumeAllIter(c.substr, test.substr, c.offset, c.subIndex)
    IN  IF e.looping
        THEN [c EXCEPT !.offset = e.offset, !.subIndex = e.subIndex]
        ELSE afterScan([c EXCEPT !.offset = e.offset, !.subIndex = e.subIndex],
                       test, e.r)

RECURSIVE runCall(_, _, _)
\* A call of GlobPattern.Matches run on its own from cursor c, for at most
\* fuel loop iterations.
runCall(c, steps, fuel) ==
    IF c.pc \in {"done", "panic"} \/ fuel = 0 THEN c
    ELSE runCall(IF c.pc = "loop" THEN loopIter(c, steps) ELSE allIter(c, steps),
                 steps, fuel - 1)

\* p.Matches(s) called on its own: the final cursor (pc = "done" when the
\* call returns).  A returning call makes at most Len(s) rewinds, each
\* followed by at most Len(steps) steps of at most three iterations.
isolatedCall(p, s) ==
    runCall(enterMatches(IdleCall(s)), p.steps, 3 * (Len(p.steps) + 1) * (Len(s) + 2))

---------------------------------------------------------------------------
VARIABLES
    text,    \* the pattern text the caller holds
    pkind,   \* the Pattern value made of it: GlobPattern, PatternStr, Literal
    gp,      \* the *GlobPattern NewPattern(text) returned to the caller
    nperr,   \* the error NewPattern(text) returned; "uncalled" before the call
    shown,   \* the last value gp.String() returned
    calls,   \* the calls of Matches(pattern, str), one per caller goroutine
    returned,\* per goroutine, the values its earlier calls returned
    scan,    \* a scanner called on its own: arguments, position, result
    tree,    \* search: the files under root, in the order Walk visits them
    walker,  \* search: the walking goroutine's position
    paths,   \* search: the channel of paths to read
    workers, \* search: per file, the position of the goroutine reading it
    results, \* search: the channel c of matching paths
    group,   \* search: the errgroup: first error, derived context
    mainpc,  \* search: the position of the calling goroutine
    found,   \* search: the slice m of paths collected so far
    closer   \* search: the position of the goroutine that closes c

\* The state of the matcher, of a scanner called on its own, and of search.
matchVars == <<text, pkind, gp, nperr, shown, calls, returned>>

scanVars == <<scan>>

searchVars == <<tree, walker, paths, workers, results, group, mainpc, found, closer>>

vars == <<matchVars, scanVars, searchVars>>

\* No scanner is called on its own.
NoScan ==
    scan = [fn |-> "none", str |-> <<>>, substr |-> <<>>, pc |-> "off",
            offset |-> 0, subIndex |-> -1, r |-> ScanFail(<<>>)]

\* search has not been called.
NoSearch ==
    /\ tree = <<>>
    /\ walker = [pc |-> "off", i |-> 1, err |-> "nil"]
    /\ paths = [buf |-> <<>>, closed |-> FALSE]
    /\ workers = <<>>
    /\ results = [buf |-> <<>>, closed |-> FALSE]
    /\ group = [err |-> "nil", done |-> FALSE]
    /\ mainpc = "off"
    /\ found = <<>>
    /\ closer = "off"

Kinds == {"GlobPattern", "PatternStr", "Literal"}

Candidates == Strs(AsciiBytes, MaxStr) \cup Strs(Utf8Bytes, MaxStr)

Callers == DOMAIN calls

\* The compiled pattern a call reads its steps from: the caller's shared
\* *GlobPattern, or the pattern PatternStr.compiled() made for this call.
Receiver(g) == IF pkind = "GlobPattern" THEN gp ELSE calls[g].own

Init ==
    /\ text \in Strs(PatBytes, MaxPat)
    /\ pkind \in Kinds
    /\ gp = NilPattern
    /\ nperr = "uncalled"
    /\ shown = [set |-> FALSE, val |-> <<>>]
    /\ \E s \in Candidates : calls = [g \in {1} |-> IdleCall(s)]
    /\ returned = [g \in {1} |-> <<>>]
    /\ NoScan
    /\ NoSearch

\* p, err := NewPattern(text), by a caller that uses a *GlobPattern.
NewPatternCall ==
    /\ pkind = "GlobPattern"
    /\ nperr = "uncalled"
    /\ LET r == NewPattern(text)
       IN  /\ gp' = r.p
           /\ nperr' = IF r.fault THEN "panic" ELSE r.err
    /\ UNCHANGED <<text, pkind, shown, calls, returned, scanVars, searchVars>>

\* gp.String().
StringCall ==
    /\ nperr = "nil"
    /\ shown' = [set |-> TRUE, val |-> String(gp)]
    /\ UNCHANGED <<text, pkind, gp, nperr, calls, returned, scanVars, searchVars>>

\* compiled() that hands a Literal to the pattern compiler, as for PatternStr.
resolveLiteralCompiled(c) ==
    IF pkind = "GlobPattern" THEN enterMatches(c)
    ELSE LET r == NewPattern(text)
         IN  IF r.fault THEN panicked(c)
             ELSE IF r.err # "nil" THEN topFail(c, r.err)
             ELSE enterMatches([c EXCEPT !.own = r.p])

\* pattern.compiled() for the three Pattern values, and what Matches does
\* with its result up to the first loop condition of GlobPattern.Matches.
resolve(c) ==
    CASE pkind = "Literal" -> topReturn(c, text = c.str)
      [] pkind = "GlobPattern" -> enterMatches(c)
      [] pkind = "PatternStr" ->
            LET r == NewPattern(text)
            IN  IF r.fault THEN panicked(c)
                ELSE IF r.err # "nil" THEN topFail(c, r.err)
                ELSE enterMatches([c EXCEPT !.own = r.p])

\* Matches(pattern, str) is called.
MatchesCall(g) ==
    /\ calls[g].pc = "idle"
    /\ pkind = "GlobPattern" => nperr = "nil"
    /\ calls' = [calls EXCEPT ![g] = resolve(calls[g])]
    /\ UNCHANGED <<text, pkind, gp, nperr, shown, returned, scanVars, searchVars>>

\* A loop iteration that also stores the bytes consumed in the step it ran,
\* a write to the scanner struct shared by every call on the pattern.
LoopIterWritesStep(g) ==
    /\ calls[g].pc = "loop"
    /\ calls' = [calls EXCEPT ![g] = loopIter(calls[g], Receiver(g).steps)]
    /\ gp' = IF pkind = "GlobPattern" /\ calls[g].stepIndex < Len(gp.steps)
             THEN [gp EXCEPT !.steps[calls[g].stepIndex + 1].start =
                                 calls'[g].bytesConsumed]
             ELSE gp
    /\ UNCHANGED <<text, pkind, nperr, shown, returned, scanVars, searchVars>>

\* One iteration of the loop of GlobPattern.Matches.
LoopIter(g) ==
    /\ calls[g].pc = "loop"
    /\ calls' = [calls EXCEPT ![g] = loopIter(calls[g], Receiver(g).steps)]
    /\ UNCHANGED <<text, pkind, gp, nperr, shown, returned, scanVars, searchVars>>

\* One iteration of the loop of consumeAllPreceding.
AllLoop(g) ==
    /\ calls[g].pc = "allLoop"
    /\ calls' = [calls EXCEPT ![g] = allIter(calls[g], Receiver(g).steps)]
    /\ UNCHANGED <<text, pkind, gp, nperr, shown, returned, scanVars, searchVars>>

Next ==
    \/ NewPatternCall
    \/ StringCall
    \/ \E g \in Callers : MatchesCall(g)
    \/ \E g \in Callers : LoopIter(g)
    \/ \E g \in Callers : AllLoop(g)

Spec == Init /\ [][Next]_vars

\* The caller's goroutine keeps running while it has a step to take: the Go
\* scheduler does not stop a runnable goroutine for ever.
InitFair ==
    /\ text \in Strs(PatBytes, MaxPatSmall)
    /\ pkind \in Kinds
    /\ gp = NilPattern
    /\ nperr = "uncalled"
    /\ shown = [set |-> FALSE, val |-> <<>>]
    /\ \E s \in Strs(AsciiBytes, MaxStrSmall) : calls = [g \in {1} |-> IdleCall(s)]
    /\ returned = [g \in {1} |-> <<>>]
    /\ NoScan
    /\ NoSearch

FairSpec == InitFair /\ [][Next]_vars /\ WF_vars(Next)

---------------------------------------------------------------------------
\* Two goroutines share one Pattern value and call Matches on it, each on
\* its own candidate: goroutine 1 several times in a row, goroutine 2 once,
\* at any point of the calls of goroutine 1.

ConcPatterns == Strs({"a", "*", "?"}, MaxPatSmall)

ConcCandidates == Strs({"a", "b"}, MaxStrSmall)

InitConc ==
    /\ text \in ConcPatterns
    /\ pkind \in {"GlobPattern", "PatternStr"}
    /\ gp = NilPattern
    /\ nperr = "uncalled"
    /\ shown = [set |-> FALSE, val |-> <<>>]
    /\ \E s1 \in ConcCandidates, s2 \in ConcCandidates :
          calls = [g \in {1, 2} |-> IdleCall(IF g = 1 THEN s1 ELSE s2)]
    /\ returned = [g \in {1, 2} |-> <<>>]
    /\ NoScan
    /\ NoSearch

\* Goroutine 1, whose call has returned, calls Matches again on the same
\* pattern value and candidate.
Again(g) ==
    /\ g = 1
    /\ calls[g].pc = "done"
    /\ Len(returned[g]) + 1 < MaxCalls
    /\ returned' = [returned EXCEPT ![g] = Append(@, calls[g].matched)]
    /\ calls' = [calls EXCEPT ![g] = IdleCall(calls[g].str)]
    /\ UNCHANGED <<text, pkind, gp, nperr, shown, scanVars, searchVars>>

NextConc ==
    \/ NewPatternCall
    \/ \E g \in Callers : MatchesCall(g)
    \/ \E g \in Callers : LoopIter(g)
    \/ \E g \in Callers : AllLoop(g)
    \/ \E g \in Callers : Again(g)

ConcSpec == InitConc /\ [][NextConc]_vars

---------------------------------------------------------------------------
\* Vocabulary of the properties.

Special == {"*", "?", "\\"}

\* A text with no wildcard and no escape character.
IsLiteral(t) == \A i \in 1..Len(t) : t[i] \notin Special

Done(g) == calls[g].pc = "done"

\* The call of g ran GlobPattern.Matches and has returned.
Matched(g) == Done(g) /\ calls[g].entered

HasPrefix(s, l) == Len(s) >= Len(l) /\ SubSeq(s, 1, Len(l)) = l

HasSuffix(s, l) == Len(s) >= Len(l) /\ SubSeq(s, Len(s) - Len(l) + 1, Len(s)) = l

\* t is L1 * L2 with the `*` at position k and L1, L2 literal.
StarAt(t, k) ==
    /\ k \in 1..Len(t)
    /\ t[k] = "*"
    /\ IsLiteral(SubSeq(t, 1, k - 1))
    /\ IsLiteral(SubSeq(t, k + 1, Len(t)))

\* s = l1 + m + l2 for some non-empty m.
SplitsAround(s, l1, l2) ==
    Len(s) >= Len(l1) + Len(l2) + 1 /\ HasPrefix(s, l1) /\ HasSuffix(s, l2)

\* t is L1 \ c L2 with the backslash at position k, c special, L1, L2 literal.
EscapeAt(t, k) ==
    /\ k \in 1..(Len(t) - 1)
    /\ t[k] = "\\"
    /\ t[k + 1] \in Special
    /\ IsLiteral(SubSeq(t, 1, k - 1))
    /\ IsLiteral(SubSeq(t, k + 2, Len(t)))

\* The number of backslashes directly before position i of t.
BackslashesBefore(t, i) ==
    Cardinality({n \in 1..(i - 1) : \A j \in (i - n)..(i - 1) : t[j] = "\\"})

Unescaped(t, i) == BackslashesBefore(t, i) % 2 = 0

\* An unescaped `*` of t is directly followed by `*` or `?`.
AdjacentWildcards(t) ==
    \E i \in 1..(Len(t) - 1) :
        t[i] = "*" /\ Unescaped(t, i) /\ t[i + 1] \in {"*", "?"}

---------------------------------------------------------------------------
\* C1: once GlobPattern.Matches has been entered on a compiled pattern, the
\* call returns after finitely many steps.  (The code does not: the scan of
\* consumeAllPreceding repeats one state for ever when the tail occurs at
\* offsets 0 and 1 of its input.)
C1_MatchesTerminates == (calls[1].pc = "loop") ~> (calls[1].pc = "done")

\* C2: a pattern L1*L2, L2 non-empty, matches s exactly when s = L1 + m + L2
\* for a non-empty m.  (The code rejects some such s.)
C2_StarThenLiteral ==
    \A g \in Callers : \A k \in 1..(Len(text) - 1) :
        (Matched(g) /\ StarAt(text, k)) =>
            (calls[g].matched <=>
                SplitsAround(calls[g].str, SubSeq(text, 1, k - 1),
                             SubSeq(text, k + 1, Len(text))))

C4_LiteralPattern ==
    \A g \in Callers :
        (pkind = "PatternStr" /\ IsLiteral(text) /\ Done(g)) =>
            /\ calls[g].err = "nil"
            /\ calls[g].entered
            /\ calls[g].matched <=> (text = calls[g].str)

\* C4 witness: a literal pattern of two bytes or more has matched its own text.
C4_Witness ==
    \E g \in Callers :
        /\ pkind = "PatternStr" /\ IsLiteral(text) /\ Len(text) >= 2
        /\ Done(g) /\ calls[g].matched /\ calls[g].str = text

\* C5: a pattern L1 \ c L2 with c one of * ? \ matches exactly the string
\* L1 + c + L2.  (The code compiles the escaped byte as a wildcard.)
C5_EscapedLiteral ==
    \A g \in Callers : \A k \in 1..(Len(text) - 1) :
        (Matched(g) /\ EscapeAt(text, k)) =>
            (calls[g].matched <=>
                calls[g].str = SubSeq(text, 1, k - 1) \o <<text[k + 1]>>
                                  \o SubSeq(text, k + 2, Len(text)))

\* C6: NewPattern returns nil and ErrInvalidGlobSequence for every pattern in
\* which an unescaped `*` is directly followed by `*` or `?`.
C6_AdjacentRejected ==
    AdjacentWildcards(text) =>
        /\ nperr # "uncalled" => (nperr = "ErrInvalidGlobSequence" /\ gp = NilPattern)
        /\ \A g \in Callers :
              (pkind = "PatternStr" /\ Done(g)) =>
                  (calls[g].err = "ErrInvalidGlobSequence" /\ calls[g].own = NilPattern)

\* C6 witness: NewPattern has rejected a three-byte pattern whose last two
\* bytes are `*?`.
C6_Witness ==
    /\ Len(text) = 3 /\ text[1] = "a" /\ text[2] = "*" /\ text[3] = "?"
    /\ nperr = "ErrInvalidGlobSequence"

C8_NoRuntimeFailure ==
    \A g \in Callers :
        /\ calls[g].pc # "panic"
        /\ calls[g].pc = "loop" =>
              loopIter(calls[g], Receiver(g).steps).pc # "panic"
        /\ calls[g].pc = "allLoop" =>
              allIter(calls[g], Receiver(g).steps).pc # "panic"

\* C8 witness: a rewind has taken checkpoint[1:] of a one-byte checkpoint.
C8_Witness ==
    \E g \in Callers :
        /\ calls[g].pc = "loop" /\ calls[g].wasReset
        /\ Len(calls[g].firstManySubstr) = 1
        /\ calls[g].substr = <<>>

\* C10: String() of a compiled pattern returns the text given to NewPattern,
\* whenever it is called.
C10_StringRoundTrip == shown.set => shown.val = text

\* C10 witness: String() has returned a text holding a backslash after a
\* Matches call on the pattern returned.
C10_Witness ==
    /\ shown.set
    /\ \E i \in 1..Len(text) : text[i] = "\\"
    /\ \E g \in Callers : Done(g)

---------------------------------------------------------------------------
\* C9: Matches never writes the compiled pattern, and every call among
\* repeated and concurrent calls on one pattern value returns what a call on
\* its own returns; patterns compiled from one text agree.
C9_SharedPatternReadOnly ==
    LET r == NewPattern(text)
    IN  /\ nperr = "nil" => gp = r.p
        /\ \A g \in Callers :
              LET iso == isolatedCall(r.p, calls[g].str)
              IN  /\ calls[g].entered => Receiver(g) = r.p
                  /\ Matched(g) => (iso.pc = "done" /\ calls[g].matched = iso.result)
                  /\ \A i \in 1..Len(returned[g]) :
                        returned[g][i] = (r.err = "nil" /\ iso.result)
        /\ \A g \in Callers : \A h \in Callers :
              (Done(g) /\ Done(h) /\ calls[g].str = calls[h].str) =>
                  calls[g].matched = calls[h].matched

\* C9 witness: both goroutines are inside GlobPattern.Matches on the shared
\* pattern, past their first step, one of them in its second call.
C9_Witness ==
    /\ pkind = "GlobPattern"
    /\ calls[1].pc = "loop" /\ calls[1].stepIndex > 0
    /\ calls[2].pc = "loop" /\ calls[2].stepIndex > 0
    /\ Len(returned[1]) = 1

---------------------------------------------------------------------------
\* Steps of the loop of GlobPattern.Matches, as transitions of one call.

InCall(g) == calls[g].pc \in {"loop", "allLoop"}

\* This transition of g ran a scanner to its return.
ScanReturned(g) ==
    /\ InCall(g)
    /\ calls'[g] # calls[g]
    /\ calls'[g].pc # "allLoop"
    /\ calls[g].stepIndex < Len(Receiver(g).steps)

FailedStep(g) == ScanReturned(g) /\ ~calls'[g].matches

SucceededStep(g) == ScanReturned(g) /\ calls'[g].matches

\* The transition rejected: Matches returned false.
Rejected(g) == calls'[g].pc = "done" /\ ~calls'[g].matched

\* i is the index of the first step of kind globMany.
IsFirstMany(steps, i) ==
    /\ i \in 0..(Len(steps) - 1)
    /\ steps[i + 1].kind = "globMany"
    /\ \A j \in 0..(i - 1) : steps[j + 1].kind # "globMany"

\* What C11 says of one transition of g, with drop the number of leading
\* bytes of the checkpoint that a rewind drops.
RewindRule(g, drop) ==
    LET c == calls[g]
        n == calls'[g]
        cp == n.firstManySubstr
    IN  /\ FailedStep(g) =>
              /\ Rejected(g) <=>
                    (n.firstMany = -1 \/ c.stepIndex = 0 \/ c.wasReset \/ Len(cp) = 0)
              /\ ~Rejected(g) =>
                    /\ n.pc = "loop"
                    /\ n.stepIndex = n.firstMany
                    /\ IsFirstMany(Receiver(g).steps, n.firstMany)
                    /\ n.substr = SliceFrom(cp, drop)
                    /\ n.wasReset
        /\ (InCall(g) /\ c.firstMany # -1) => n.firstMany = c.firstMany
        /\ (InCall(g) /\ c.wasReset /\ ~n.wasReset) =>
              (SucceededStep(g) /\ n.stepIndex = c.stepIndex + 1)

\* C11 as stated: a failed step rejects exactly under the four conditions,
\* and otherwise rewinds to the first ManyWildcard step, which never moves,
\* with the checkpoint less its leading character (code point), the flag set
\* until the next successful step.  (The code drops one byte.)
C11_RewindDropsCharacter ==
    [][\A g \in Callers : RewindRule(g, RuneSize(calls'[g].firstManySubstr))]_vars

\* C11 amended: the same, with the checkpoint less its leading byte.
C11_RewindDropsByte == [][\A g \in Callers : RewindRule(g, 1)]_vars

\* C11 witness: a call has just rewound to a first ManyWildcard step that is
\* not step 0, dropping the first byte of a two-byte code point.
C11_Witness ==
    \E g \in Callers :
        /\ calls[g].pc = "loop" /\ calls[g].wasReset
        /\ calls[g].firstMany = 1 /\ calls[g].stepIndex = 1
        /\ calls[g].substr = <<"A9">>

---------------------------------------------------------------------------
\* The four scanners called on their own, on every input and tail within
\* the bounds.  consumeAllPreceding is stepped through its loop, so a call
\* that never returns is a behaviour that never reaches "ret".

ScannerNames ==
    {"consumeSubstring", "consumeOnePreceding", "consumeAllPreceding", "consumeEnd"}

ScanTails == Strs({"a", "b"}, MaxPatSmall)

InitScan ==
    /\ text = <<>>
    /\ pkind = "Literal"
    /\ gp = NilPattern
    /\ nperr = "uncalled"
    /\ shown = [set |-> FALSE, val |-> <<>>]
    /\ calls = <<IdleCall(<<>>)>>
    /\ returned = <<<<>>>>
    /\ scan \in [fn : ScannerNames, str : Candidates, substr : ScanTails,
                 pc : {"call"}, offset : {0}, subIndex : {-1},
                 r : {ScanFail(<<>>)}]
    /\ NoSearch

\* The return of a scanner: its result, or the panic of a faulting slice.
scanReturn(sc, r) ==
    [sc EXCEPT !.pc = IF r.fault THEN "panic" ELSE "ret", !.r = r]

\* The call of a scanner up to its return or, for consumeAllPreceding, up
\* to the first test of its loop condition.
ScanCall ==
    /\ scan.pc = "call"
    /\ scan' = IF scan.fn = "consumeAllPreceding"
               THEN LET e == consumeAllEnter(scan.str, scan.substr)
                    IN  IF e.looping
                        THEN [scan EXCEPT !.pc = "allLoop", !.offset = e.offset,
                                          !.subIndex = e.subIndex]
                        ELSE scanReturn(scan, e.r)
               ELSE scanReturn(scan, Scan(scan.fn, scan.str, scan.substr))
    /\ UNCHANGED <<matchVars, searchVars>>

\* One turn of the loop of consumeAllPreceding.
ScanAllLoop ==
    /\ scan.pc = "allLoop"
    /\ LET e == consumeAllIter(scan.str, scan.substr, scan.offset, scan.subIndex)
       IN  scan' = IF e.looping
                   THEN [scan EXCEPT !.offset = e.offset, !.subIndex = e.subIndex]
                   ELSE scanReturn([scan EXCEPT !.offset = e.offset,
                                                !.subIndex = e.subIndex], e.r)
    /\ UNCHANGED <<matchVars, searchVars>>

NextScan == ScanCall \/ ScanAllLoop

ScanSpec == InitScan /\ [][NextScan]_vars

\* The scanner fn has returned.
Returned(fn) == scan.pc = "ret" /\ scan.fn = fn

\* The byte offsets i >= 1 of str at which tail occurs.
LaterOffsets(str, tail) == {i \in 1..Len(str) : OccursAt(str, tail, i)}

Earliest(S) == CHOOSE i \in S : \A j \in S : i <= j

\* C12: consumeAllPreceding(input, tail) with a non-empty tail succeeds
\* exactly when tail occurs in input at a byte offset i >= 1 and then, for
\* the earliest such i, returns input[i+len(tail):] and i + len(tail); with
\* an empty tail it succeeds, consumes the whole input and returns "".
C12_ManyScanContract ==
    Returned("consumeAllPreceding") =>
        LET str == scan.str
            tail == scan.substr
            r == scan.r
        IN  IF Len(tail) = 0
            THEN r.m /\ r.rest = <<>> /\ r.n = Len(str)
            ELSE /\ r.m <=> (LaterOffsets(str, tail) # {})
                 /\ r.m => LET i == Earliest(LaterOffsets(str, tail))
                           IN  /\ r.rest = SliceFrom(str, i + Len(tail))
                               /\ r.n = i + Len(tail)

\* C13: consumeOnePreceding(input, tail) succeeds exactly when input starts
\* with a code point c and the bytes after c begin with tail, and then
\* consumes len(c) + len(tail) bytes and returns what follows them.
C13_OneScanContract ==
    Returned("consumeOnePreceding") =>
        LET str == scan.str
            tail == scan.substr
            r == scan.r
            size == RuneSize(str)
        IN  /\ r.m <=> (Len(str) >= 1 /\ HasPrefix(SliceFrom(str, size), tail))
            /\ r.m => /\ r.rest = SliceFrom(str, size + Len(tail))
                      /\ r.n = size + Len(tail)

---------------------------------------------------------------------------
\* The compiled patterns in the state: the caller's *GlobPattern and the
\* pattern each call of Matches compiled from a PatternStr.
CompiledPatterns ==
    {q \in {gp} \cup {calls[g].own : g \in Callers} : ~q.isNil}

\* A step sequence that is non-empty, ends in an End step with an empty
\* tail, and has no End step before its end.
EndsInEnd(steps) ==
    /\ Len(steps) >= 1
    /\ steps[Len(steps)].kind = "globEnd"
    /\ steps[Len(steps)].scanner = "consumeEnd"
    /\ steps[Len(steps)].substr = <<>>
    /\ \A i \in 1..(Len(steps) - 1) : steps[i].kind # "globEnd"

NeverReturned == {"ErrPatternInvalid", "ErrPatternEmpty"}

\* C14: every compiled pattern has a non-empty step sequence that ends in
\* its only End step, whose tail is empty; NewPattern returns neither
\* ErrPatternInvalid nor ErrPatternEmpty; the empty pattern compiles to the
\* single End step and matches the empty candidate only.
C14_EndsInEnd ==
    /\ \A q \in CompiledPatterns : EndsInEnd(q.steps)
    /\ nperr \notin NeverReturned
    /\ \A g \in Callers :
          /\ calls[g].err \notin NeverReturned
          /\ (text = <<>> /\ pkind # "Literal" /\ Done(g)) =>
                /\ calls[g].err = "nil" /\ calls[g].entered
                /\ Len(Receiver(g).steps) = 1
                /\ calls[g].matched <=> (calls[g].str = <<>>)

\* C14 witness: the empty pattern, compiled to one step, has been matched
\* against a non-empty candidate.
C14_Witness ==
    \E g \in Callers :
        /\ text = <<>> /\ Matched(g)
        /\ Len(Receiver(g).steps) = 1
        /\ calls[g].str # <<>>

---------------------------------------------------------------------------
\* C15: NewPattern fails for the adjacency violation only: for a text in
\* which no unescaped `*` is directly followed by an unescaped `*` or `?`
\* it returns a pattern and no error, and slices the text within range;
\* so does the compilation of a PatternStr by Matches.  (The code does
\* not: it rejects a `*` followed by an escaped wildcard.)
C15_FailsForAdjacencyOnly ==
    ~AdjacentWildcards(text) =>
        /\ nperr \in {"uncalled", "nil"}
        /\ nperr = "nil" => ~gp.isNil
        /\ \A g \in Callers :
              /\ calls[g].pc # "panic"
              /\ Done(g) => calls[g].err = "nil"

---------------------------------------------------------------------------
\* C16: a scanner that returns failure returns the input unchanged and 0;
\* one that returns success returns the input less exactly bytesConsumed
\* leading bytes; consumeEnd consumes nothing and succeeds only when the
\* input and the tail are both empty.
C16_ScannerFrame ==
    scan.pc = "ret" =>
        LET r == scan.r
        IN  /\ ~r.m => (r.rest = scan.str /\ r.n = 0)
            /\ r.m => /\ r.n \in 0..Len(scan.str)
                      /\ r.rest = SliceFrom(scan.str, r.n)
            /\ scan.fn = "consumeEnd" =>
                  /\ r.n = 0 /\ r.rest = scan.str
                  /\ r.m <=> (scan.str = <<>> /\ scan.substr = <<>>)

\* C16 witness: consumeAllPreceding has returned success after its loop,
\* having consumed a wildcard span and the tail and left a remainder.
C16_Witness ==
    /\ Returned("consumeAllPreceding")
    /\ scan.r.m
    /\ scan.r.n > Len(scan.substr)
    /\ scan.substr # <<>>
    /\ scan.r.rest # <<>>

---------------------------------------------------------------------------
\* Calls on candidates long enough for a call to rewind more than once and
\* to match after a rewind.
BackPatterns == Strs({"a", "*", "?"}, MaxPat)

BackCandidates == Strs({"a", "b"}, MaxLong)

InitBack ==
    /\ text \in BackPatterns
    /\ pkind \in {"GlobPattern", "PatternStr"}
    /\ gp = NilPattern
    /\ nperr = "uncalled"
    /\ shown = [set |-> FALSE, val |-> <<>>]
    /\ \E s \in BackCandidates : calls = [g \in {1} |-> IdleCall(s)]
    /\ returned = [g \in {1} |-> <<>>]
    /\ NoScan
    /\ NoSearch

BackSpec == InitBack /\ [][Next]_vars

\* The transition is a rewind of g: a step failed and the loop goes on.
Rewind(g) == FailedStep(g) /\ calls'[g].pc = "loop"

\* C17: every rewind re-enters the first ManyWildcard step with a remaining
\* input strictly shorter than the one that step was entered with the time
\* before; no rewind follows a rewind without a successful step between
\* them; a call rewinds at most len(candidate) times.
C17_RewindsMakeProgress ==
    [][\A g \in Callers :
          /\ Rewind(g) =>
                /\ calls'[g].stepIndex = calls'[g].firstMany
                /\ Len(calls'[g].substr) < Len(calls'[g].entry)
                /\ ~calls[g].wasReset
          /\ calls'[g].rewinds <= Len(calls'[g].str)]_vars

\* C17 witness: a call has rewound twice, with a successful step between.
C17_Witness ==
    \E g \in Callers : calls[g].rewinds >= 2 /\ calls[g].pc = "loop"

---------------------------------------------------------------------------
\* Calls on patterns of literal text and `*`, long enough for two `*` that
\* are each followed by literal text.
StarPatterns == Strs({"a", "b", "*"}, MaxStar)

StarCandidates == Strs({"a", "b"}, MaxStar)

InitStar ==
    /\ text \in StarPatterns
    /\ pkind = "GlobPattern"
    /\ gp = NilPattern
    /\ nperr = "uncalled"
    /\ shown = [set |-> FALSE, val |-> <<>>]
    /\ \E s \in StarCandidates : calls = [g \in {1} |-> IdleCall(s)]
    /\ returned = [g \in {1} |-> <<>>]
    /\ NoScan
    /\ NoSearch

StarSpec == InitStar /\ [][Next]_vars

\* t holds literal text and `*` only.
StarOnly(t) == \A i \in 1..Len(t) : t[i] \notin {"?", "\\"}

RECURSIVE SplitsInto(_, _)
\* s is the literal runs of t in order, with one span per `*` of t: at least
\* one byte for a `*` followed by literal text, any number for a last `*`.
SplitsInto(t, s) ==
    IF t = <<>> THEN s = <<>>
    ELSE IF t[1] # "*" THEN s # <<>> /\ s[1] = t[1] /\ SplitsInto(Tail(t), Tail(s))
    ELSE IF Len(t) = 1 THEN TRUE
    ELSE \E k \in 1..Len(s) : SplitsInto(Tail(t), SubSeq(s, k + 1, Len(s)))

\* C18: for a compiled pattern of literal text and `*` only, a call of
\* GlobPattern.Matches(s) that returns true has an s that splits, in order
\* and with nothing left over, into the literal runs of the pattern and one
\* span per `*`.  (The code does not: a scan that returns an offset one too
\* small lets the next `*` span nothing.)
C18_NoFalsePositive ==
    \A g \in Callers :
        (StarOnly(text) /\ Matched(g) /\ calls[g].matched) =>
            SplitsInto(text, calls[g].str)

---------------------------------------------------------------------------
\* search(ctx, root, pattern, filepattern) of main.go.  text is filepattern.
\* tree is what filepath.Walk visits, in order; a path is its index in tree.
\* The channels paths and c hold at most Cap values (100 in the program).
\*   walker   walk (in Walk), send (at its select), inMatches (inside
\*            glob.Matches), ret (returned, paths closed), done (counted by
\*            the errgroup)
\*   workers  none (not started), read, send (at its select), done, panic
\*   mainpc   range (over paths), collect (range over c), wait (g.Wait),
\*            returned
\*   closer   off, wait (in g.Wait), close (before close(c)), done, panic
\*   group    the errgroup's first error and whether its context is done

\* A visited file: its base name, whether it is a regular file, whether
\* Walk reports an error for it, whether reading it fails, whether its
\* content contains pattern; glob is what glob.Matches does with its name,
\* filled in from the matcher when search starts.
File(name, regular, walkErr, readErr, contains) ==
    [name |-> name, regular |-> regular, walkErr |-> walkErr,
     readErr |-> readErr, contains |-> contains, glob |-> "uncalled"]

HealthyFiles ==
    {File(<<"a", "b">>, TRUE, FALSE, FALSE, TRUE),
     File(<<"a", "b">>, TRUE, FALSE, FALSE, FALSE),
     File(<<"a">>, TRUE, FALSE, FALSE, TRUE),
     File(<<"b", "b">>, TRUE, FALSE, FALSE, TRUE),
     File(<<"a", "b">>, FALSE, FALSE, FALSE, FALSE)}

FailingFiles ==
    {File(<<"a", "b">>, TRUE, FALSE, TRUE, TRUE),
     File(<<"a", "b">>, TRUE, TRUE, FALSE, TRUE)}

FilePatterns == {<<"*">>, <<"*", "b">>, <<"*", "*">>}

\* glob.Matches(glob.PatternStr(filepattern), name) as the walk callback
\* sees it: err, ok, no, or hang when the call does not return.
nameMatches(name) ==
    LET r == NewPattern(text)
    IN  IF r.fault THEN "panic"
        ELSE IF r.err # "nil" THEN "err"
        ELSE LET call == isolatedCall(r.p, name)
             IN  IF call.pc = "panic" THEN "panic"
                 ELSE IF call.pc # "done" THEN "hang"
                 ELSE IF call.matched THEN "ok" ELSE "no"

\* The walk callback up to its select: what it does with file f.
visit(f) ==
    IF f.walkErr THEN "err"
    ELSE IF ~f.regular THEN "skip"
    ELSE IF f.glob \in {"hang", "panic"} THEN f.glob
    ELSE IF f.glob = "err" THEN "skip"
    ELSE IF f.glob = "no" THEN "skip"
    ELSE "send"

\* The errgroup after one of its goroutines returned err: the first error
\* is kept and cancels the context.
record(err) ==
    IF err # "nil" /\ group.err = "nil" THEN [err |-> err, done |-> TRUE] ELSE group

\* g.Wait() that waits for the walker only.
groupIdleWalkerOnly == walker.pc = "done"

\* What g.Wait() waits for: every goroutine started with g.Go has returned.
groupIdle ==
    /\ walker.pc = "done"
    /\ \A p \in DOMAIN workers : workers[p] \in {"none", "done"}

InitSearchOn(files) ==
    /\ text \in FilePatterns
    /\ pkind = "PatternStr"
    /\ gp = NilPattern
    /\ nperr = "uncalled"
    /\ shown = [set |-> FALSE, val |-> <<>>]
    /\ calls = <<IdleCall(<<>>)>>
    /\ returned = <<<<>>>>
    /\ NoScan
    /\ \E t \in Strs(files, MaxFiles) :
          tree = [p \in 1..Len(t) |-> [t[p] EXCEPT !.glob = nameMatches(t[p].name)]]
    /\ walker = [pc |-> "walk", i |-> 1, err |-> "nil"]
    /\ paths = [buf |-> <<>>, closed |-> FALSE]
    /\ workers = [p \in 1..Len(tree) |-> "none"]
    /\ results = [buf |-> <<>>, closed |-> FALSE]
    /\ group = [err |-> "nil", done |-> FALSE]
    /\ mainpc = "range"
    /\ found = <<>>
    /\ closer = "off"

InitSearch == InitSearchOn(HealthyFiles \cup FailingFiles)

\* The walker returns err from Walk: the deferred close(paths) runs.
walkReturn(err) ==
    /\ walker' = [walker EXCEPT !.pc = IF paths.closed THEN "panic" ELSE "ret",
                                !.err = err]
    /\ paths' = [paths EXCEPT !.closed = TRUE]

\* Walk calls the callback for the next file, up to the select.
WalkVisit ==
    /\ walker.pc = "walk"
    /\ walker.i <= Len(tree)
    /\ LET v == visit(tree[walker.i])
       IN  CASE v = "err" -> walkReturn("walk")
             [] v = "skip" -> /\ walker' = [walker EXCEPT !.i = walker.i + 1]
                              /\ UNCHANGED paths
             [] v = "send" -> /\ walker' = [walker EXCEPT !.pc = "send"]
                              /\ UNCHANGED paths
             [] v = "hang" -> /\ walker' = [walker EXCEPT !.pc = "inMatches"]
                              /\ UNCHANGED paths
             [] v = "panic" -> /\ walker' = [walker EXCEPT !.pc = "panic"]
                               /\ UNCHANGED paths
    /\ UNCHANGED <<matchVars, scanVars, tree, workers, results, group, mainpc,
                   found, closer>>

\* The select of the callback: send the path, or give up when ctx is done.
WalkSend ==
    /\ walker.pc = "send"
    /\ \E way \in {"send", "ctx"} :
          IF way = "send"
          THEN /\ Len(paths.buf) < Cap
               /\ paths' = [paths EXCEPT !.buf = Append(paths.buf, walker.i)]
               /\ walker' = [walker EXCEPT !.pc = "walk", !.i = walker.i + 1]
          ELSE /\ group.done
               /\ walkReturn("ctx")
    /\ UNCHANGED <<matchVars, scanVars, tree, workers, results, group, mainpc,
                   found, closer>>

\* Walk has visited every file and returns nil.
WalkEnd ==
    /\ walker.pc = "walk"
    /\ walker.i > Len(tree)
    /\ walkReturn("nil")
    /\ UNCHANGED <<matchVars, scanVars, tree, workers, results, group, mainpc,
                   found, closer>>

\* The errgroup takes the walker's return value.
WalkDone ==
    /\ walker.pc = "ret"
    /\ group' = record(walker.err)
    /\ walker' = [walker EXCEPT !.pc = "done"]
    /\ UNCHANGED <<matchVars, scanVars, tree, paths, workers, results, mainpc,
                   found, closer>>

\* for path := range paths: one path received, its worker started.
MainRecv ==
    /\ mainpc = "range"
    /\ paths.buf # <<>>
    /\ paths' = [paths EXCEPT !.buf = Tail(paths.buf)]
    /\ workers' = [workers EXCEPT ![Head(paths.buf)] = "read"]
    /\ UNCHANGED <<matchVars, scanVars, tree, walker, results, group, mainpc,
                   found, closer>>

\* The range over paths ends; the goroutine that closes c is started.
MainStartCloser ==
    /\ mainpc = "range"
    /\ paths.buf = <<>>
    /\ paths.closed
    /\ closer' = "wait"
    /\ mainpc' = "collect"
    /\ UNCHANGED <<matchVars, scanVars, tree, walker, paths, workers, results,
                   group, found>>

\* for r := range c: one result appended to m.
MainCollect ==
    /\ mainpc = "collect"
    /\ results.buf # <<>>
    /\ found' = Append(found, Head(results.buf))
    /\ results' = [results EXCEPT !.buf = Tail(results.buf)]
    /\ UNCHANGED <<matchVars, scanVars, tree, walker, paths, workers, group,
                   mainpc, closer>>

\* The range over c ends.
MainCollectEnd ==
    /\ mainpc = "collect"
    /\ results.buf = <<>>
    /\ results.closed
    /\ mainpc' = "wait"
    /\ UNCHANGED <<matchVars, scanVars, tree, walker, paths, workers, results,
                   group, found, closer>>

\* return m, g.Wait(): Wait returns the first error and cancels ctx.
MainReturn ==
    /\ mainpc = "wait"
    /\ groupIdle
    /\ mainpc' = "returned"
    /\ group' = [group EXCEPT !.done = TRUE]
    /\ UNCHANGED <<matchVars, scanVars, tree, walker, paths, workers, results,
                   found, closer>>

\* A worker reads its file and looks for pattern in it.
WorkerRead(p) ==
    /\ workers[p] = "read"
    /\ IF tree[p].readErr
       THEN /\ workers' = [workers EXCEPT ![p] = "done"]
            /\ group' = record("read")
       ELSE IF ~tree[p].contains
       THEN /\ workers' = [workers EXCEPT ![p] = "done"]
            /\ UNCHANGED group
       ELSE /\ workers' = [workers EXCEPT ![p] = "send"]
            /\ UNCHANGED group
    /\ UNCHANGED <<matchVars, scanVars, tree, walker, paths, results, mainpc,
                   found, closer>>

\* The select of a worker: send the path on c, or give up when ctx is done.
\* A send on a closed channel panics.
WorkerSend(p) ==
    /\ workers[p] = "send"
    /\ \E way \in {"send", "ctx"} :
          IF way = "send"
          THEN /\ results.closed \/ Len(results.buf) < Cap
               /\ IF results.closed
                  THEN /\ workers' = [workers EXCEPT ![p] = "panic"]
                       /\ UNCHANGED results
                  ELSE /\ workers' = [workers EXCEPT ![p] = "done"]
                       /\ results' = [results EXCEPT !.buf = Append(results.buf, p)]
               /\ UNCHANGED group
          ELSE /\ group.done
               /\ workers' = [workers EXCEPT ![p] = "done"]
               /\ group' = record("ctx")
               /\ UNCHANGED results
    /\ UNCHANGED <<matchVars, scanVars, tree, walker, paths, mainpc, found, closer>>

\* g.Wait() in the closing goroutine returns, and cancels ctx.
CloserWait ==
    /\ closer = "wait"
    /\ groupIdle
    /\ closer' = "close"
    /\ group' = [group EXCEPT !.done = TRUE]
    /\ UNCHANGED <<matchVars, scanVars, tree, walker, paths, workers, results,
                   mainpc, found>>

\* close(c).  Closing a closed channel panics.
CloserClose ==
    /\ closer = "close"
    /\ closer' = IF results.closed THEN "panic" ELSE "done"
    /\ results' = [results EXCEPT !.closed = TRUE]
    /\ UNCHANGED <<matchVars, scanVars, tree, walker, paths, workers, group,
                   mainpc, found>>

\* The caller's context ends (main gives it a timeout).
Cancel ==
    /\ mainpc # "returned"
    /\ ~group.done
    /\ group' = [group EXCEPT !.done = TRUE]
    /\ UNCHANGED <<matchVars, scanVars, tree, walker, paths, workers, results,
                   mainpc, found, closer>>

NextSearch ==
    \/ WalkVisit
    \/ WalkSend
    \/ WalkEnd
    \/ WalkDone
    \/ MainRecv
    \/ MainStartCloser
    \/ MainCollect
    \/ MainCollectEnd
    \/ MainReturn
    \/ \E p \in DOMAIN workers : WorkerRead(p)
    \/ \E p \in DOMAIN workers : WorkerSend(p)
    \/ CloserWait
    \/ CloserClose
    \/ Cancel

SearchSpec == InitSearch /\ [][NextSearch]_vars

\* The walker has returned, and so has every worker that was started.
AllReturned ==
    /\ walker.pc = "done"
    /\ \A p \in DOMAIN workers : workers[p] \in {"none", "done"}

\* C19: c is closed only after the walker and every worker have returned;
\* every worker is started before the closing goroutine begins to wait;
\* paths is closed once, by the walker, after its last send; no goroutine
\* sends on a closed channel and no channel is closed twice.
C19_CloseOrdering ==
    /\ closer \in {"close", "done"} => AllReturned
    /\ results.closed => (closer = "done" /\ AllReturned)
    /\ closer # "off" => (paths.closed /\ paths.buf = <<>> /\ mainpc # "range")
    /\ paths.closed => walker.pc \in {"ret", "done"}
    /\ walker.pc # "panic" /\ closer # "panic"
    /\ \A p \in DOMAIN workers : workers[p] # "panic"

\* C19 witness: c has been closed while a path sent by a worker is still
\* in it, after another worker gave up on a cancelled context.
C19_Witness ==
    /\ results.closed
    /\ results.buf # <<>>
    /\ group.err = "ctx"

---------------------------------------------------------------------------
\* search where no file fails to be walked or read and the caller's
\* context does not end.  Every goroutine that can take a step is scheduled
\* in the end, and those in a select or a channel operation go on when the
\* operation becomes possible.
InitSearchOk == InitSearchOn(HealthyFiles)

NextSearchOk ==
    \/ WalkVisit
    \/ WalkSend
    \/ WalkEnd
    \/ WalkDone
    \/ MainRecv
    \/ MainStartCloser
    \/ MainCollect
    \/ MainCollectEnd
    \/ MainReturn
    \/ \E p \in DOMAIN workers : WorkerRead(p)
    \/ \E p \in DOMAIN workers : WorkerSend(p)
    \/ CloserWait
    \/ CloserClose

FairSearchSpec == InitSearchOk /\ [][NextSearchOk]_vars /\ WF_vars(NextSearchOk)

\* The file pattern compiles.
Compiles == NewPattern(text).err = "nil" /\ ~NewPattern(text).fault

\* The paths search is to return: the regular files whose name matches the
\* file pattern and whose content contains the pattern.
Wanted ==
    {p \in 1..Len(tree) :
        /\ tree[p].regular
        /\ tree[p].glob = "ok"
        /\ tree[p].contains}

\* search has returned a nil error and the wanted paths, each once.
ReturnedWanted ==
    /\ mainpc = "returned"
    /\ group.err = "nil"
    /\ {found[k] : k \in 1..Len(found)} = Wanted
    /\ Len(found) = Cardinality(Wanted)

\* C20: if the file pattern compiles, no file read fails and the context is
\* not cancelled, search returns in the end, with a nil error and exactly
\* the wanted paths, each once, however many files there are for the
\* capacity of the channels.  (The code does not when glob.Matches does not
\* return for a file name.)
C20_SearchReturns == (mainpc = "range" /\ Compiles) ~> ReturnedWanted

====
